---- MODULE Spec2Model ----
(***************************************************************************)
(* Model of DacAdvancedControl (ES9218 DAC advanced features HAL):         *)
(* construction-time discovery of the sysfs control directory, the four    *)
(* accessors, the sysfs control files and the system-property store.       *)
(***************************************************************************)
EXTENDS Integers, Sequences, FiniteSets

\* ------------------------------------------------------------------ bounds
\* Largest number of entries the scanned parent directory holds.
MaxEntries == 2

\* Largest number of operations of one run in which a write fails or
\* the environment changes a control file.
MaxFaults == 1

\* ------------------------------------------------------------- int32_t
Int32Min == -2147483647 - 1

\* ------------------------------------------------------------- features
AVCVolume == "AVCVolume"
HifiMode == "HifiMode"
AdvancedFeature == {AVCVolume, HifiMode}

\* --------------------------------------------------------- text <-> int
\* Text is a sequence of one-character strings.
Digit == <<"0", "1", "2", "3", "4", "5", "6", "7", "8", "9">>

DigitVal(c) == CHOOSE d \in 0..9 : Digit[d + 1] = c

IsDigit(c) == \E d \in 0..9 : Digit[d + 1] = c

\* Decimal digits of -n for n <= 0 (worked on the negative side, so that
\* the most negative int32 needs no negation).
RECURSIVE DigitsNeg(_)
DigitsNeg(n) ==
    IF n > -10
    THEN <<Digit[(-n) + 1]>>
    ELSE LET d == (10 - (n % 10)) % 10
         IN  Append(DigitsNeg((n + d) \div 10), Digit[d + 1])

\* std::to_string(int32_t) and operator<<(std::ostream&, int): decimal,
\* a leading '-' for negatives, no padding.
ToString(n) == IF n < 0 THEN <<"-">> \o DigitsNeg(n) ELSE DigitsNeg(-n)

\* Result of a failed numeric conversion (no digits, or outside int32).
NoInt == [ok |-> FALSE, val |-> 0]

\* Accumulates the decimal digits of s from position i as a negative
\* magnitude acc; stops at the first non-digit (strtoimax leaves `end`
\* there).  range is FALSE once the magnitude exceeds 2^31.
RECURSIVE ScanDigits(_, _, _, _, _)
ScanDigits(s, i, acc, n, range) ==
    IF i > Len(s) \/ ~IsDigit(s[i])
    THEN [acc |-> acc, n |-> n, range |-> range]
    ELSE LET d == DigitVal(s[i])
             fits == range /\ acc >= -214748364 /\ acc * 10 >= Int32Min + d
         IN  ScanDigits(s, i + 1, IF fits THEN acc * 10 - d ELSE acc, n + 1, fits)

\* strtoimax(buf, &end, 0) followed by property_get_imax's checks against
\* [INT32_MIN, INT32_MAX] and end == buf, for decimal text (the radix
\* prefixes 0 and 0x that base 0 also accepts are not produced by
\* ToString and are not part of the property values drawn in Init).
StrToInt32(s) ==
    LET neg == Len(s) >= 1 /\ s[1] = "-"
        r == ScanDigits(s, IF neg THEN 2 ELSE 1, 0, 0, TRUE)
    IN  IF r.n = 0 \/ ~r.range THEN NoInt
        ELSE IF neg THEN [ok |-> TRUE, val |-> r.acc]
        ELSE IF r.acc = Int32Min THEN NoInt
        ELSE [ok |-> TRUE, val |-> -r.acc]

\* ---------------------------------------------------------------- state
VARIABLES
    phase,          \* "new" before the constructor ran, then "ready"; "aborted" when the process died
    parentExists,   \* whether COMMON_ES9218_PATH exists
    entries,        \* its entries in directory_iterator order: [isDir, has0048]
    kernel,         \* control files: <<entry, feature>> -> [exists, content]
    props,          \* system-property store: feature's property -> text (<<>>: unset)
    inputs,         \* the values callers pass: feature -> set of int32_t
    mDacBasePath,   \* index of the chosen entry, 0 for the empty string
    mSupportedAdvancedFeatures,
    last,           \* the last completed call: arguments, result, writes attempted
    faults,         \* operations so far with a failed write, and outside changes of the files
    thr             \* concurrent callers of setFeatureValue: [pc, f, v, ret]

vars == <<phase, parentExists, entries, kernel, props, inputs, mDacBasePath,
          mSupportedAdvancedFeatures, last, faults, thr>>

\* What no operation of the service changes.
world == <<parentExists, entries, inputs>>

Thread == {1, 2}

Path == (1..MaxEntries) \X AdvancedFeature

NoFile == [exists |-> FALSE, content |-> <<>>]

\* What a control file holds before this service wrote it.
KernelInitial == [exists |-> TRUE, content |-> <<"7">>]

\* Compile-time defaults of property_get_int32 (named at the call sites;
\* DacAdvancedControl.h sets them).
AVC_VOLUME_DEFAULT == -14
HIFI_MODE_DEFAULT == 0

\* Values callers pass: a sample of each feature's documented values
\* and the int32 extreme, or the whole documented value spaces.
SampleInputs == [f \in AdvancedFeature |->
                    IF f = AVCVolume THEN {Int32Min, -10} ELSE {0, 2}]
FullInputs == [f \in AdvancedFeature |->
                  IF f = AVCVolume THEN (-24)..0 ELSE 0..2]
ConcInputs == [f \in AdvancedFeature |->
                  IF f = AVCVolume THEN {-24, -10} ELSE {0, 2}]

\* Property texts present before the service starts: unset, not a number,
\* a number outside int32, and numbers.
PropInit(f) ==
    IF f = AVCVolume
    THEN {<<>>, <<"x">>, ToString(Int32Min), ToString(-10)}
    ELSE {<<>>, <<"2", "1", "4", "7", "4", "8", "3", "6", "4", "8">>, ToString(1)}

Entry == [isDir : BOOLEAN, has0048 : BOOLEAN]

Listings == UNION { [1..n -> Entry] : n \in 0..MaxEntries }

\* The record of a call: op, its arguments (f, v), its result (ret: the
\* int32_t, retb: the bool, cb: what the callback was invoked with), the
\* writes it attempted (fw: files, pw: properties) and whether they went
\* through (fok, pok); for a getFeatureValue, prev is the call completed
\* just before it when that was a setFeatureValue of the same feature.
NoPrev == [op |-> "none", f |-> AVCVolume, v |-> 0, pok |-> FALSE]

NoCall == [op |-> "none", f |-> AVCVolume, v |-> 0, ret |-> 0, retb |-> FALSE,
           fw |-> <<>>, pw |-> <<>>, fok |-> FALSE, pok |-> FALSE, cb |-> "none",
           prev |-> NoPrev]

IdleThread == [pc |-> "idle", f |-> AVCVolume, v |-> 0, retb |-> FALSE,
               fok |-> FALSE, pok |-> FALSE]

Init ==
    /\ phase = "new"
    /\ parentExists \in BOOLEAN
    /\ entries \in Listings
    /\ ~parentExists => entries = <<>>
    /\ kernel \in [Path -> {NoFile, KernelInitial}]
    /\ \A p \in Path :
          kernel[p].exists => p[1] <= Len(entries) /\ entries[p[1]].isDir
    \* a directory of another device starts with both files: the case in
    \* which choosing it would show
    /\ \A p \in Path :
          (p[1] <= Len(entries) /\ entries[p[1]].isDir /\ ~entries[p[1]].has0048)
              => kernel[p].exists
    /\ props \in [AdvancedFeature -> UNION {PropInit(f) : f \in AdvancedFeature}]
    /\ \A f \in AdvancedFeature : props[f] \in PropInit(f)
    /\ inputs = SampleInputs
    /\ mDacBasePath = 0
    /\ mSupportedAdvancedFeatures = <<>>
    /\ last = NoCall
    /\ faults = 0
    /\ thr = [t \in Thread |-> IdleThread]

\* ------------------------------------------------ files and properties
\* Mutant of set: the stream opened for appending.
set_Append(k, path, text, ok) ==
    IF ok THEN [k EXCEPT ![path] = [exists |-> TRUE, content |-> k[path].content \o text]]
    ELSE k

\* set<T>(path, value): std::ofstream opens, writes the text and closes;
\* nothing is checked.  ok is whether the open and the write went through
\* (a successful open creates a missing file).
set(k, path, text, ok) ==
    IF ok THEN [k EXCEPT ![path] = [exists |-> TRUE, content |-> text]] ELSE k

\* std::filesystem::exists(mDacBasePath + suffix)
FileExists(k, base, f) == base > 0 /\ k[<<base, f>>].exists

\* property_set(key, value): the store after the call.
property_set(p, key, text, ok) == IF ok THEN [p EXCEPT ![key] = text] ELSE p

\* property_set's return value: 0 on success, -1 on failure.
property_set_rc(ok) == IF ok THEN 0 ELSE -1

\* property_get_int32(key, default_value)
property_get_int32(p, key, def) ==
    LET r == StrToInt32(p[key])
    IN  IF Len(p[key]) > 0 /\ r.ok THEN r.val ELSE def

\* (-1)*value in int32_t: the product of every value but INT32_MIN; for
\* INT32_MIN the multiplication overflows (undefined): the build either
\* wraps to INT32_MIN or traps.
MulMinusOne(value) ==
    IF value = Int32Min
    THEN {[trap |-> FALSE, val |-> Int32Min], [trap |-> TRUE, val |-> 0]}
    ELSE {[trap |-> FALSE, val |-> -value]}

getAvcVolumeState(p) == property_get_int32(p, AVCVolume, AVC_VOLUME_DEFAULT)

\* Mutant of getHifiModeState: the value read back from the control file
\* (as the get<T> helper would) instead of from the property.
getHifiModeState_FromFile(p) ==
    IF mDacBasePath > 0 /\ kernel[<<mDacBasePath, HifiMode>>].exists
                        /\ StrToInt32(kernel[<<mDacBasePath, HifiMode>>].content).ok
    THEN StrToInt32(kernel[<<mDacBasePath, HifiMode>>].content).val
    ELSE HIFI_MODE_DEFAULT

getHifiModeState(p) == property_get_int32(p, HifiMode, HIFI_MODE_DEFAULT)

\* Mutant of writeAvcVolumeState: the negated value stored in the property
\* too.
writeAvcVolumeState_StoresNegated(k, p, base, value, negated, fok, pok) ==
    [kernel |-> set(k, <<base, AVCVolume>>, ToString(negated), fok),
     props  |-> property_set(p, AVCVolume, ToString(negated), pok),
     retb   |-> property_set_rc(pok) # 0,
     fw     |-> <<[path |-> <<base, AVCVolume>>, text |-> ToString(negated)]>>,
     pw     |-> <<[key |-> AVCVolume, text |-> ToString(negated)]>>,
     ok     |-> fok /\ pok]

\* writeAvcVolumeState(value), negated being the outcome of (-1)*value:
\* the states after it, (bool) of property_set's result, and the writes
\* it attempted.
writeAvcVolumeState(k, p, base, value, negated, fok, pok) ==
    [kernel |-> set(k, <<base, AVCVolume>>, ToString(negated), fok),
     props  |-> property_set(p, AVCVolume, ToString(value), pok),
     retb   |-> property_set_rc(pok) # 0,
     fw     |-> <<[path |-> <<base, AVCVolume>>, text |-> ToString(negated)]>>,
     pw     |-> <<[key |-> AVCVolume, text |-> ToString(value)]>>,
     ok     |-> fok /\ pok]

writeHifiModeState(k, p, base, value, fok, pok) ==
    [kernel |-> set(k, <<base, HifiMode>>, ToString(value), fok),
     props  |-> property_set(p, HifiMode, ToString(value), pok),
     retb   |-> property_set_rc(pok) # 0,
     fw     |-> <<[path |-> <<base, HifiMode>>, text |-> ToString(value)]>>,
     pw     |-> <<[key |-> HifiMode, text |-> ToString(value)]>>,
     ok     |-> fok /\ pok]

\* A feature's block skipped: nothing written.
NoWrite(k, p) ==
    [kernel |-> k, props |-> p, retb |-> FALSE, fw |-> <<>>, pw |-> <<>>, ok |-> TRUE]

\* Mutant of feature_available: the list tested for being non-empty.
feature_available_NonEmpty(list, f) == Len(list) > 0

\* The loops over mSupportedAdvancedFeatures / std::find.
feature_available(list, f) == \E i \in 1..Len(list) : list[i] = f

\* ---------------------------------------------------------- constructor
\* Mutant of FindBasePath: the loop without its break (the last match).
FindBasePath_NoBreak(es) ==
    LET m == {i \in 1..Len(es) : es[i].isDir /\ es[i].has0048}
    IN  IF m = {} THEN 0 ELSE CHOOSE i \in m : \A j \in m : i >= j

\* Mutant of FindBasePath: the name test left out (the first directory).
FindBasePath_AnyDirectory(es) ==
    LET m == {i \in 1..Len(es) : es[i].isDir}
    IN  IF m = {} THEN 0 ELSE CHOOSE i \in m : \A j \in m : i <= j

\* The directory scan: the first entry, in iteration order, that is a
\* directory and whose path contains "0048"; 0 (empty string) if none.
FindBasePath(es) ==
    LET m == {i \in 1..Len(es) : es[i].isDir /\ es[i].has0048}
    IN  IF m = {} THEN 0 ELSE CHOOSE i \in m : \A j \in m : i <= j

\* The uncaught exception / trap ends the process.
Abort ==
    /\ phase' = "aborted"
    /\ UNCHANGED <<world, kernel, props, mDacBasePath,
                   mSupportedAdvancedFeatures, last, faults, thr>>

\* An operation whose writes all went through leaves the count; one with
\* a failed write needs room for it.
Fault(ok) ==
    /\ ok \/ faults < MaxFaults
    /\ faults' = IF ok THEN faults ELSE faults + 1

Construct ==
    /\ phase = "new"
    /\ IF ~parentExists
       THEN Abort   \* directory_iterator throws filesystem_error
       ELSE LET base == FindBasePath(entries) IN
            IF base = 0
            THEN /\ phase' = "ready"
                 /\ last' = [NoCall EXCEPT !.op = "ctor"]
                 /\ UNCHANGED <<world, kernel, props, mDacBasePath,
                                mSupportedAdvancedFeatures, faults, thr>>
            ELSE LET hasA == FileExists(kernel, base, AVCVolume) IN
                 \E fokA, pokA \in IF hasA THEN BOOLEAN ELSE {TRUE} :
                 \E avc \in {getAvcVolumeState(props)} :
                 \E n \in MulMinusOne(avc) :
                 \E a \in {IF hasA
                            THEN writeAvcVolumeState(kernel, props, base, avc, n.val,
                                                     fokA, pokA)
                            ELSE NoWrite(kernel, props)} :
                   LET hasH == FileExists(a.kernel, base, HifiMode)
                   IN  \E fokH, pokH \in IF hasH THEN BOOLEAN ELSE {TRUE} :
                       \E h \in {IF hasH
                                  THEN writeHifiModeState(a.kernel, a.props, base,
                                           getHifiModeState(a.props), fokH, pokH)
                                  ELSE NoWrite(a.kernel, a.props)} :
                           IF hasA /\ n.trap
                           THEN Abort
                           ELSE /\ phase' = "ready"
                                /\ mDacBasePath' = base
                                /\ mSupportedAdvancedFeatures' =
                                      (IF hasA THEN <<AVCVolume>> ELSE <<>>)
                                      \o (IF hasH THEN <<HifiMode>> ELSE <<>>)
                                /\ kernel' = h.kernel
                                /\ props' = h.props
                                /\ Fault(a.ok /\ h.ok)
                                /\ last' = [NoCall EXCEPT !.op = "ctor",
                                                          !.fw = a.fw \o h.fw,
                                                          !.pw = a.pw \o h.pw]
                                /\ UNCHANGED <<world, thr>>

\* ------------------------------------------------------------ accessors
getSupportedAdvancedFeatures ==
    /\ phase = "ready"
    /\ last' = [NoCall EXCEPT !.op = "list", !.cb = "features"]
    /\ UNCHANGED <<phase, world, kernel, props, mDacBasePath,
                   mSupportedAdvancedFeatures, faults, thr>>

getSupportedAdvancedFeatureValues(f) ==
    /\ phase = "ready"
    /\ last' = [NoCall EXCEPT !.op = "values", !.f = f,
                  !.cb = IF ~feature_available(mSupportedAdvancedFeatures, f) THEN "none"
                         ELSE IF f = AVCVolume THEN "range" ELSE "states"]
    /\ UNCHANGED <<phase, world, kernel, props, mDacBasePath,
                   mSupportedAdvancedFeatures, faults, thr>>

setFeatureValue(f, value) ==
    /\ phase = "ready"
    /\ IF ~feature_available(mSupportedAdvancedFeatures, f)
       THEN /\ last' = [NoCall EXCEPT !.op = "set", !.f = f, !.v = value, !.retb = FALSE]
            /\ UNCHANGED <<phase, world, kernel, props, mDacBasePath,
                           mSupportedAdvancedFeatures, faults, thr>>
       ELSE \E fok, pok \in BOOLEAN :
            \E n \in MulMinusOne(value) :
            \E w \in {IF f = AVCVolume
                       THEN writeAvcVolumeState(kernel, props, mDacBasePath, value,
                                                n.val, fok, pok)
                       ELSE writeHifiModeState(kernel, props, mDacBasePath, value,
                                               fok, pok)} :
                IF f = AVCVolume /\ n.trap
                THEN Abort
                ELSE /\ kernel' = w.kernel
                     /\ props' = w.props
                     /\ Fault(w.ok)
                     /\ last' = [NoCall EXCEPT !.op = "set", !.f = f, !.v = value,
                                   !.retb = w.retb, !.fw = w.fw, !.pw = w.pw,
                                   !.fok = fok, !.pok = pok]
                     /\ UNCHANGED <<phase, world, mDacBasePath,
                                    mSupportedAdvancedFeatures, thr>>

getFeatureValue(f) ==
    /\ phase = "ready"
    /\ last' = [NoCall EXCEPT !.op = "get", !.f = f,
                  !.ret = IF ~feature_available(mSupportedAdvancedFeatures, f) THEN -1
                          ELSE IF f = AVCVolume THEN getAvcVolumeState(props)
                          ELSE getHifiModeState(props),
                  !.prev = IF last.op = "set" /\ last.f = f
                           THEN [op |-> last.op, f |-> last.f, v |-> last.v,
                                 pok |-> last.pok]
                           ELSE NoPrev]
    /\ UNCHANGED <<phase, world, kernel, props, mDacBasePath,
                   mSupportedAdvancedFeatures, faults, thr>>

\* ---------------------------------------------------------- environment
\* The kernel driver (or anything else) removes or creates a control file
\* after the service started.
FsChange(p) ==
    /\ phase = "ready"
    /\ p[1] <= Len(entries) /\ entries[p[1]].isDir
    /\ kernel' = [kernel EXCEPT ![p] = IF kernel[p].exists THEN NoFile ELSE KernelInitial]
    /\ Fault(FALSE)
    /\ last' = [NoCall EXCEPT !.op = "env"]
    /\ UNCHANGED <<phase, world, props, mDacBasePath,
                   mSupportedAdvancedFeatures, thr>>

Next ==
    \/ Construct
    \/ getSupportedAdvancedFeatures
    \/ \E f \in AdvancedFeature : getSupportedAdvancedFeatureValues(f)
    \/ \E f \in AdvancedFeature : \E v \in inputs[f] : setFeatureValue(f, v)
    \/ \E f \in AdvancedFeature : getFeatureValue(f)
    \/ \E p \in Path : FsChange(p)

Spec == Init /\ [][Next]_vars

\* ------------------------------------------- the whole value spaces
\* One DAC directory with both control files, callers passing every
\* documented value.
InitRoundTrip ==
    /\ phase = "new"
    /\ parentExists = TRUE
    /\ entries = <<[isDir |-> TRUE, has0048 |-> TRUE]>>
    /\ kernel = [p \in Path |-> IF p[1] = 1 THEN KernelInitial ELSE NoFile]
    /\ props \in [AdvancedFeature -> UNION {PropInit(f) : f \in AdvancedFeature}]
    /\ \A f \in AdvancedFeature : props[f] \in PropInit(f)
    /\ inputs = FullInputs
    /\ mDacBasePath = 0
    /\ mSupportedAdvancedFeatures = <<>>
    /\ last = NoCall
    /\ faults = 0
    /\ thr = [t \in Thread |-> IdleThread]

SpecRoundTrip == InitRoundTrip /\ [][Next]_vars

\* ------------------------------------------------- concurrent callers
\* setFeatureValue on a binder thread t, cut where another thread can run
\* in between: the availability loop, then writeXState's file write, then
\* its property_set and the return.
setEnter(t, f, value) ==
    /\ phase = "ready"
    /\ thr[t].pc = "idle"
    /\ thr' = [thr EXCEPT ![t] =
                 [IdleThread EXCEPT !.f = f, !.v = value,
                     !.pc = IF feature_available(mSupportedAdvancedFeatures, f)
                            THEN "file" ELSE "done"]]
    /\ UNCHANGED <<phase, world, kernel, props, mDacBasePath,
                   mSupportedAdvancedFeatures, last, faults>>

setFileWrite(t) ==
    /\ phase = "ready"
    /\ thr[t].pc = "file"
    /\ \E fok \in BOOLEAN :
       \E n \in MulMinusOne(thr[t].v) :
          IF thr[t].f = AVCVolume /\ n.trap
          THEN Abort
          ELSE /\ kernel' =
                     IF thr[t].f = AVCVolume
                     THEN writeAvcVolumeState(kernel, props, mDacBasePath, thr[t].v,
                                              n.val, fok, TRUE).kernel
                     ELSE writeHifiModeState(kernel, props, mDacBasePath, thr[t].v,
                                             fok, TRUE).kernel
               /\ thr' = [thr EXCEPT ![t].pc = "prop", ![t].fok = fok]
               /\ UNCHANGED <<phase, world, props, mDacBasePath,
                              mSupportedAdvancedFeatures, last, faults>>

setPropertyWrite(t) ==
    /\ phase = "ready"
    /\ thr[t].pc = "prop"
    /\ \E pok \in BOOLEAN :
       \E w \in {IF thr[t].f = AVCVolume
                  THEN writeAvcVolumeState(kernel, props, mDacBasePath, thr[t].v,
                                           0, TRUE, pok)
                  ELSE writeHifiModeState(kernel, props, mDacBasePath, thr[t].v,
                                          TRUE, pok)} :
          /\ props' = w.props
          /\ thr' = [thr EXCEPT ![t].pc = "done", ![t].pok = pok, ![t].retb = w.retb]
          /\ UNCHANGED <<phase, world, kernel, mDacBasePath,
                         mSupportedAdvancedFeatures, last, faults>>

InitConc ==
    /\ phase = "new"
    /\ parentExists = TRUE
    /\ entries = <<[isDir |-> TRUE, has0048 |-> TRUE]>>
    /\ kernel = [p \in Path |-> IF p[1] = 1 THEN KernelInitial ELSE NoFile]
    /\ props \in [AdvancedFeature -> UNION {PropInit(f) : f \in AdvancedFeature}]
    /\ \A f \in AdvancedFeature : props[f] \in PropInit(f)
    /\ inputs = ConcInputs
    /\ mDacBasePath = 0
    /\ mSupportedAdvancedFeatures = <<>>
    /\ last = NoCall
    /\ faults = 0
    /\ thr = [t \in Thread |-> IdleThread]

NextConc ==
    \/ Construct
    \/ \E t \in Thread : \E f \in AdvancedFeature : \E v \in inputs[f] : setEnter(t, f, v)
    \/ \E t \in Thread : setFileWrite(t)
    \/ \E t \in Thread : setPropertyWrite(t)

SpecConc == InitConc /\ [][NextConc]_vars

\* -------------------------------------------------- reading the claims
\* Decimal texts, written out: what the claims expect to see in files and
\* properties, independently of ToString and StrToInt32.
MinText == <<"-", "2", "1", "4", "7", "4", "8", "3", "6", "4", "8">>

KnownInts == {Int32Min, -24, -14, -10, 0, 1, 2, 10, 14, 24}

Dec(n) ==
    CASE n = 0 -> <<"0">>
      [] n = 1 -> <<"1">>
      [] n = 2 -> <<"2">>
      [] n = 10 -> <<"1", "0">>
      [] n = 14 -> <<"1", "4">>
      [] n = 24 -> <<"2", "4">>
      [] n = -10 -> <<"-", "1", "0">>
      [] n = -14 -> <<"-", "1", "4">>
      [] n = -24 -> <<"-", "2", "4">>
      [] n = Int32Min -> MinText

\* t is the decimal text of an int32 number.
IsNumber(t) == \E n \in KnownInts : Dec(n) = t

NumberOf(t) == CHOOSE n \in KnownInts : Dec(n) = t

\* b is the decimal text of the arithmetic negation of the number a is
\* the text of.
NegationText(a, b) ==
    \/ a = <<"0">> /\ b = <<"0">>
    \/ a # <<"0">> /\ b = <<"-">> \o a
    \/ b # <<"0">> /\ a = <<"-">> \o b

InList(f) ==
    \E i \in DOMAIN mSupportedAdvancedFeatures : mSupportedAdvancedFeatures[i] = f

DefaultOf(f) == IF f = AVCVolume THEN AVC_VOLUME_DEFAULT ELSE HIFI_MODE_DEFAULT

\* The step just taken completed the call op (every operation records
\* itself in last; a process that died completes nothing).
Completes(op) == phase = "ready" /\ phase' = "ready" /\ last'.op = op

\* C2: for a feature in the supported list, setFeatureValue returns true
\* exactly when the property-store write succeeded, whatever the kernel
\* control-file write did.
C2_SetReturnsPropertyWriteSuccess ==
    (last.op = "set" /\ InList(last.f)) => (last.retb <=> last.pok)

\* What the code does where C2 fails: setFeatureValue returns true exactly
\* when the property write failed ((bool) of property_set's 0 is false).
C2_CodeReturnsPropertyWriteFailure ==
    (last.op = "set" /\ InList(last.f)) => (last.retb <=> ~last.pok)

\* C3: every write to the AVCVolume control file, by setFeatureValue or by
\* the constructor, carries the negation -v of the value v, and the
\* property store receives v itself.
C3_KernelWriteIsNegation ==
    \A i \in DOMAIN last.fw :
        last.fw[i].path[2] = AVCVolume =>
            \E j \in DOMAIN last.pw :
                /\ last.pw[j].key = AVCVolume
                /\ NegationText(last.pw[j].text, last.fw[i].text)
                /\ last.op = "set" => last.pw[j].text = Dec(last.v)

\* C3 holds of every write whose value is not INT32_MIN.
C3_HoldsExceptInt32Min ==
    (\A j \in DOMAIN last.pw : last.pw[j].text # MinText) => C3_KernelWriteIsNegation

\* The directory the scan is documented to choose: the first entry that
\* is a directory whose name contains the identifier; 0 if there is none.
Matches(i) == entries[i].isDir /\ entries[i].has0048

NoMatch == \A i \in DOMAIN entries : ~Matches(i)

DacDir ==
    IF NoMatch THEN 0
    ELSE CHOOSE i \in DOMAIN entries : Matches(i) /\ \A j \in 1..(i - 1) : ~Matches(j)

\* f's control file exists in the file system k.
ControlFileIn(k, f) == DacDir > 0 /\ k[<<DacDir, f>>].exists

ListFor(k) ==
    (IF ControlFileIn(k, AVCVolume) THEN <<AVCVolume>> ELSE <<>>)
    \o (IF ControlFileIn(k, HifiMode) THEN <<HifiMode>> ELSE <<>>)

\* C4: the supported list holds a feature iff its control file existed
\* when the constructor ran, AVCVolume before HifiMode, and no accessor and
\* no later change of the file system changes the list.
C4_SupportedListFixedAtConstruction ==
    [][ /\ (phase = "new" /\ phase' = "ready")
            => mSupportedAdvancedFeatures' = ListFor(kernel)
        /\ phase = "ready"
            => mSupportedAdvancedFeatures' = mSupportedAdvancedFeatures ]_vars

\* A control file removed after construction, its feature still listed.
C4_Witness ==
    /\ phase = "ready"
    /\ mSupportedAdvancedFeatures = <<AVCVolume, HifiMode>>
    /\ ~kernel[<<mDacBasePath, AVCVolume>>].exists
    /\ last.op = "list"

\* The text of the value the constructor finds cached for f in the
\* property store p.
CachedText(p, f) == IF IsNumber(p[f]) THEN p[f] ELSE Dec(DefaultOf(f))

\* The step is a construction that wrote, once, the control file of each
\* feature found with the feature's cached value (negated for AVCVolume),
\* and no control file of a feature not found.
Resyncs ==
    \A f \in AdvancedFeature :
        LET writes == {i \in DOMAIN last'.fw : last'.fw[i].path[2] = f}
        IN  IF ControlFileIn(kernel, f)
            THEN /\ Cardinality(writes) = 1
                 /\ \A i \in writes :
                      /\ last'.fw[i].path = <<DacDir, f>>
                      /\ IF f = AVCVolume
                         THEN NegationText(CachedText(props, f), last'.fw[i].text)
                         ELSE last'.fw[i].text = CachedText(props, f)
            ELSE writes = {}

\* C5: when construction completes, the control file of each feature found
\* has been written once, with the feature's cached value (the property's
\* value, or the default when the property is absent or malformed; negated
\* for AVCVolume), and the control file of a feature not found has not
\* been written.
C5_ConstructorResync ==
    [][ (phase = "new" /\ phase' = "ready") => Resyncs ]_vars

\* C5 holds of every construction that does not find INT32_MIN cached for
\* AVCVolume.
C5_HoldsExceptInt32Min ==
    [][ (phase = "new" /\ phase' = "ready" /\ props[AVCVolume] # MinText)
            => Resyncs ]_vars

C7_UnsupportedFeature ==
    ((phase = "ready" /\ ~InList(last.f)) =>
        /\ last.op = "get" => last.ret = -1
        /\ last.op = "set" => (~last.retb /\ last.fw = <<>> /\ last.pw = <<>>))

\* HifiMode asked for while only AVCVolume is supported and HifiMode's
\* property holds a number.
C7_Witness ==
    /\ phase = "ready"
    /\ mSupportedAdvancedFeatures = <<AVCVolume>>
    /\ last.op = "get" /\ last.f = HifiMode
    /\ props[HifiMode] = Dec(1)
    /\ last.ret = -1

C10_KernelAgreesWithProperty ==
    (phase = "ready" /\ faults = 0) =>
        \A f \in AdvancedFeature :
            InList(f) =>
                LET file == kernel[<<mDacBasePath, f>>]
                IN  /\ file.exists
                    /\ IF f = AVCVolume
                       THEN NegationText(props[f], file.content)
                       ELSE file.content = props[f]

\* C10 holds wherever AVCVolume's property is not INT32_MIN.
C10_HoldsExceptInt32Min ==
    (props[AVCVolume] # MinText) => C10_KernelAgreesWithProperty

\* The documented value space of each feature.
ValueSpace(f) == IF f = AVCVolume THEN (-24)..0 ELSE 0..2

BothReturned(f) ==
    /\ phase = "ready" /\ InList(f)
    /\ \A t \in Thread :
          thr[t].pc = "done" /\ thr[t].f = f /\ thr[t].fok /\ thr[t].pok

FileTextOf(f, v) == IF f = AVCVolume THEN Dec(-v) ELSE Dec(v)

\* C9: setFeatureValue is not atomic.  When two calls on the same
\* supported feature run concurrently, the control file ends up holding
\* the value of one of the two calls and the property the value of one of
\* the two calls, and not necessarily of the same call (C9_Witness).
C9_FinalStateFromTheCalls ==
    \A f \in AdvancedFeature :
        BothReturned(f) =>
            /\ kernel[<<mDacBasePath, f>>].content \in
                  {FileTextOf(f, thr[t].v) : t \in Thread}
            /\ props[f] \in {Dec(thr[t].v) : t \in Thread}

\* After both calls returned, the control file holds the first caller's
\* value and the property the second caller's.
C9_Witness ==
    /\ BothReturned(AVCVolume)
    /\ thr[1].v # thr[2].v
    /\ kernel[<<mDacBasePath, AVCVolume>>].content = FileTextOf(AVCVolume, thr[1].v)
    /\ props[AVCVolume] = Dec(thr[2].v)

====
